---- MODULE Spec2Model ----
(***************************************************************************)
(* Model of fje_plus.py (Funny JSON Explorer): the JSON-to-tree builder,   *)
(* the two drawing styles, display_tree and ComponentIterator.             *)
(*                                                                         *)
(* Python strings are sequences of one-character strings, so that len,     *)
(* concatenation and str * int are computed as Python computes them.       *)
(* A JSON value is a record [t, n, s, keys, items]: t is the Python type   *)
(* of the value ("dict", "list", "int", "str"), n the number of an int, s  *)
(* the characters of a str, items the items of a list or the values of a   *)
(* dict and keys the keys of a dict, both in insertion order.              *)
(***************************************************************************)
EXTENDS Integers, Sequences, FiniteSets, TLC

VARIABLES
    data,       \* display_tree: the parsed JSON document (line 197)
    factory,    \* class name of the style factory chosen by main
    pc,         \* "run", "done", "error" (display_tree); "new", "iter", "stop" (iterator)
    tree,       \* display_tree: the list `tree` of forest roots (line 198)
    i,          \* display_tree: index of the next root to render (1-based)
    out,        \* the lines printed so far
    passes,     \* the top-level draw calls made so far: [root, first, last]
    err,        \* the exception that ended the run, NoExc when none
    stack,      \* ComponentIterator.stack (top of the stack is the last element)
    yielded     \* the components returned by __next__ so far

vars == <<data, factory, pc, tree, i, out, passes, err, stack, yielded>>

-----------------------------------------------------------------------------
(* Bounds of the model *)

\* JSON documents of at most this many values (containers and scalars) are checked.
MaxNodes == 5

-----------------------------------------------------------------------------
(* Python values *)

PyStr(s) == [t |-> "str", n |-> 0, s |-> s, keys |-> <<>>, items |-> <<>>]
PyInt(n) == [t |-> "int", n |-> n, s |-> <<>>, keys |-> <<>>, items |-> <<>>]
PyList(items) == [t |-> "list", n |-> 0, s |-> <<>>, keys |-> <<>>, items |-> items]
PyDict(keys, items) == [t |-> "dict", n |-> 0, s |-> <<>>, keys |-> keys, items |-> items]

\* A key longer than the Box-style line width, and a short one.
LongKey == [k \in 1..41 |-> "k"]
Keys == {<<"a">>, LongKey}
Scalars == {PyInt(1), PyStr(<<"x">>)}

isinstance(x, cls) == x.t = cls

\* The sequences of distinct keys of length n.
KeySeqs(n) == {ks \in [1..n -> Keys] : \A a, b \in 1..n : a # b => ks[a] # ks[b]}

\* The sequences of distinct keys an object can have.
AllKeySeqs == UNION {KeySeqs(n) : n \in 0..Cardinality(Keys)}

\* The JSON values made of exactly n values, given for every m < n the
\* sequences seqs[m + 1] of JSON values that hold m values in all.
ValuesOfSize(n, seqs) ==
    (IF n = 1 THEN Scalars ELSE {})
        \cup {PyList(s) : s \in seqs[n]}
        \cup {PyDict(p[1], p[2])
                 : p \in {q \in AllKeySeqs \X seqs[n] : Len(q[1]) = Len(q[2])}}

RECURSIVE SeqsFrom(_, _, _, _)
\* The sequences of JSON values that hold n values in all and start with a
\* value of size at most k.
SeqsFrom(n, vals, seqs, k) ==
    IF k = 0 THEN {}
    ELSE SeqsFrom(n, vals, seqs, k - 1)
             \cup {<<h>> \o r : h \in vals[k], r \in seqs[n - k + 1]}

\* The sequences of JSON values that hold n >= 1 values in all, given the
\* values vals[k] of each size k <= n and the sequences seqs[m + 1], m < n.
SeqsOfSize(n, vals, seqs) == SeqsFrom(n, vals, seqs, n)

RECURSIVE JsonTable(_)
\* vals[k], k in 1..n, and seqs[m + 1], m in 0..n-1, built from the smaller sizes up.
JsonTable(n) ==
    IF n = 0 THEN [vals |-> <<>>, seqs |-> <<>>]
    ELSE LET prev == JsonTable(n - 1)
             seqs == Append(prev.seqs,
                            IF n = 1 THEN {<<>>} ELSE SeqsOfSize(n - 1, prev.vals, prev.seqs))
         IN  [vals |-> Append(prev.vals, ValuesOfSize(n, seqs)), seqs |-> seqs]

RECURSIVE DocumentsOfSize(_, _)
\* The JSON objects among the values of size at most n.
DocumentsOfSize(vals, n) ==
    IF n = 0 THEN {}
    ELSE DocumentsOfSize(vals, n - 1) \cup {d \in vals[n] : isinstance(d, "dict")}

\* What load_json can return to display_tree: a JSON object.
Documents == DocumentsOfSize(JsonTable(MaxNodes).vals, MaxNodes)

Factories == {"TreeStyleFactory", "RectangleStyleFactory"}

RECURSIVE Decimal(_)
Digits == <<"0", "1", "2", "3", "4", "5", "6", "7", "8", "9">>
Decimal(n) == IF n < 10 THEN <<Digits[n + 1]>> ELSE Decimal(n \div 10) \o <<Digits[(n % 10) + 1]>>

RECURSIVE repr(_), JoinRepr(_), JoinItems(_, _)
\* ", ".join(repr(x) for x in s)
JoinRepr(s) ==
    IF s = <<>> THEN <<>>
    ELSE IF Len(s) = 1 THEN repr(s[1])
    ELSE repr(s[1]) \o <<",", " ">> \o JoinRepr(Tail(s))

\* ", ".join(repr(k) + ": " + repr(v) for k, v in d.items()), from item j on
JoinItems(d, j) ==
    IF j > Len(d.items) THEN <<>>
    ELSE LET kv == <<"'">> \o d.keys[j] \o <<"'", ":", " ">> \o repr(d.items[j])
         IN  IF j = Len(d.items) THEN kv ELSE kv \o <<",", " ">> \o JoinItems(d, j + 1)

\* Python's repr of a value.
repr(x) ==
    CASE x.t = "str"  -> <<"'">> \o x.s \o <<"'">>
      [] x.t = "int"  -> Decimal(x.n)
      [] x.t = "list" -> <<"[">> \o JoinRepr(x.items) \o <<"]">>
      [] x.t = "dict" -> <<"{">> \o JoinItems(x, 1) \o <<"}">>

\* Python's str of a value, what an f-string field "{x}" expands to.
str(x) == IF x.t = "str" THEN x.s ELSE repr(x)

\* len(x) raises TypeError for an int.
has_len(x) == x.t # "int"
len(x) == IF x.t = "str" THEN Len(x.s) ELSE Len(x.items)

\* s * n with the sign of n dropped.
str_mul_abs(s, n) ==
    LET m == IF n < 0 THEN -n ELSE n
    IN  IF m = 0 THEN <<>> ELSE [k \in 1..(m * Len(s)) |-> s[((k - 1) % Len(s)) + 1]]

\* s * n: a negative n gives the empty string.
str_mul(s, n) == IF n <= 0 THEN <<>> ELSE [k \in 1..(n * Len(s)) |-> s[((k - 1) % Len(s)) + 1]]

-----------------------------------------------------------------------------
(* Exceptions *)

NoExc == [type |-> "None", arg |-> PyStr(<<>>)]
Raise(type, arg) == [type |-> type, arg |-> arg]

-----------------------------------------------------------------------------
(* Components and factories *)

TreeContainer(name, level) ==
    [cls |-> "TreeContainer", name |-> name, level |-> level, children |-> <<>>]
TreeLeaf(name) == [cls |-> "TreeLeaf", name |-> name]
RectangleContainer(name, level) ==
    [cls |-> "RectangleContainer", name |-> name, level |-> level, children |-> <<>>]
RectangleLeaf(name) == [cls |-> "RectangleLeaf", name |-> name]

create_container(f, name, level) ==
    IF f = "TreeStyleFactory" THEN TreeContainer(name, level)
    ELSE RectangleContainer(name, level)

create_leaf(f, name) ==
    IF f = "TreeStyleFactory" THEN TreeLeaf(name) ELSE RectangleLeaf(name)

\* container.add(component)
add(container, component) ==
    [container EXCEPT !.children = Append(container.children, component)]

IsContainer(c) == c.cls \in {"TreeContainer", "RectangleContainer"}
IsLeaf(c) == c.cls \in {"TreeLeaf", "RectangleLeaf"}
IsRaised(c) == c.cls = "Exception"

-----------------------------------------------------------------------------
(* build_tree *)

Raised(type, arg) == [cls |-> "Exception", exc |-> Raise(type, arg)]

RECURSIVE add_all(_, _)
\* The container.add calls of one loop of build_tree, in order; an exception
\* raised while a child is built leaves the loop and build_tree.
add_all(container, components) ==
    IF components = <<>> THEN container
    ELSE IF IsRaised(components[1]) THEN components[1]
    ELSE add_all(add(container, components[1]), Tail(components))

\* f"{key}: {value}"
key_value(key, value) == PyStr(key \o <<":", " ">> \o str(value))

RECURSIVE build_tree(_, _, _)
build_tree(d, f, level) ==
    IF isinstance(d, "dict") THEN
        IF d.keys = <<>> THEN Raised("IndexError", d)     \* list(data.keys())[0]
        ELSE
            LET key == d.keys[1]
                value == d.items[1]
                container == create_container(f, PyStr(key), level)
            IN  IF isinstance(value, "dict") THEN
                    add_all(container,
                        [j \in 1..Len(value.items) |->
                            LET subkey == value.keys[j]
                                subvalue == value.items[j]
                            IN  IF isinstance(subvalue, "dict") \/ isinstance(subvalue, "list")
                                THEN build_tree(PyDict(<<subkey>>, <<subvalue>>), f, level + 1)
                                ELSE create_leaf(f, key_value(subkey, subvalue))])
                ELSE IF isinstance(value, "list") THEN
                    add_all(container,
                        [j \in 1..Len(value.items) |->
                            LET item == value.items[j]
                            IN  IF isinstance(item, "dict") \/ isinstance(item, "list")
                                THEN build_tree(item, f, level + 1)
                                ELSE create_leaf(f, item)])
                ELSE add(container, create_leaf(f, key_value(key, value)))
    ELSE create_leaf(f, d)

-----------------------------------------------------------------------------
(* Drawing.  A draw call returns the lines it printed and the exception it *)
(* raised, if any.  A line records the print statement that wrote it, the  *)
(* indent and the name that went into it, the repeat count computed for    *)
(* the horizontal glyph (0 in Tree style) and the text written.            *)

\* The icon family loaded by the factory: one glyph per role.  The file is
\* an input of the program; the glyphs here are pairwise distinct.
icons ==
    [ last_branch_icon    |-> <<"%", "-">>,
      branch_icon         |-> <<"+", "-">>,
      vertical_line       |-> <<"|">>,
      leaf_icon           |-> <<"*">>,
      leaf_prefix         |-> <<"@">>,
      top_left_corner     |-> <<"/">>,
      top_right_corner    |-> <<"7">>,
      bottom_left_corner  |-> <<"L">>,
      bottom_right_corner |-> <<"J">>,
      horizontal_line     |-> <<"=">>,
      left_branch_icon    |-> <<"#">> ]

TopWidth == 33
BoxWidth == 40

Line(stmt, indent, name, n, text) ==
    [stmt |-> stmt, indent |-> indent, name |-> name, n |-> n, text |-> text]

Printed(lines) == [lines |-> lines, exc |-> NoExc]
Failed(lines, exc) == [lines |-> lines, exc |-> exc]

\* The callee printed after the caller's lines; its exception, if any, propagates.
Then(lines, r) == [lines |-> lines \o r.lines, exc |-> r.exc]

\* TreeLeaf.draw with the two leaf glyphs taken the wrong way round.
TreeLeaf_draw_swapped(self, indent, is_last, is_top, is_bottom) ==
    LET leaf_icon == icons.leaf_icon
        leaf_prefix == icons.leaf_prefix
    IN  Printed(<<Line(73, indent, str(self.name), 0,
            indent \o (IF is_last THEN leaf_icon ELSE leaf_prefix) \o <<" ">> \o str(self.name))>>)

TreeLeaf_draw(self, indent, is_last, is_top, is_bottom) ==
    LET leaf_icon == icons.leaf_icon
        leaf_prefix == icons.leaf_prefix
    IN  Printed(<<Line(73, indent, str(self.name), 0,
            indent \o (IF is_last THEN leaf_prefix ELSE leaf_icon) \o <<" ">> \o str(self.name))>>)

RectangleLeaf_draw(self, indent, is_last, is_top, is_bottom) ==
    LET leaf_icon == icons.leaf_icon
        horizontal_line == icons.horizontal_line
        left_branch_icon == icons.left_branch_icon
    IN  IF ~has_len(self.name) THEN Failed(<<>>, Raise("TypeError", self.name))
        ELSE LET n == BoxWidth - Len(indent) - len(self.name) - 3
             IN  Printed(<<Line(128, indent, str(self.name), n,
                     indent \o leaf_icon \o <<" ">> \o str(self.name)
                         \o str_mul(horizontal_line, n) \o left_branch_icon)>>)

RECURSIVE draw(_, _, _, _, _), TreeContainer_children(_, _, _), RectangleContainer_children(_, _, _)

\* for i, child in enumerate(self.children), from child j on (lines 57-59)
TreeContainer_children(self, j, new_indent) ==
    IF j > Len(self.children) THEN Printed(<<>>)
    ELSE LET is_last_child == j = Len(self.children)
             r == draw(self.children[j], new_indent, is_last_child, TRUE, FALSE)
         IN  IF r.exc # NoExc THEN r
             ELSE Then(r.lines, TreeContainer_children(self, j + 1, new_indent))

TreeContainer_draw(self, indent, is_last, is_top, is_bottom) ==
    LET branch_icon == IF is_last THEN icons.last_branch_icon ELSE icons.branch_icon
        new_indent == indent \o (IF is_last THEN <<" ", " ", " ">>
                                 ELSE icons.vertical_line \o <<" ", " ">>)
    IN  Then(<<Line(55, indent, str(self.name), 0,
                    indent \o branch_icon \o <<" ">> \o str(self.name))>>,
             TreeContainer_children(self, 1, new_indent))

\* for i, child in enumerate(self.children), from child j on (lines 107-109)
RectangleContainer_children(self, j, new_indent) ==
    IF j > Len(self.children) THEN Printed(<<>>)
    ELSE LET is_last_child == j = Len(self.children)
             r == draw(self.children[j], new_indent, is_last_child, FALSE, FALSE)
         IN  IF r.exc # NoExc THEN r
             ELSE Then(r.lines, RectangleContainer_children(self, j + 1, new_indent))

RectangleContainer_draw(self, indent, is_last, is_top, is_bottom) ==
    LET top_left_corner == icons.top_left_corner
        top_right_corner == icons.top_right_corner
        bottom_left_corner == icons.bottom_left_corner
        bottom_right_corner == icons.bottom_right_corner
        horizontal_line == icons.horizontal_line
        vertical_line == icons.vertical_line
        left_branch_icon == icons.left_branch_icon
        branch_icon == icons.branch_icon
        first ==
            IF is_top
            THEN Line(101, indent, str(self.name), TopWidth - Len(indent),
                     indent \o top_left_corner \o str(self.name)
                         \o str_mul(horizontal_line, TopWidth - Len(indent)) \o top_right_corner)
            ELSE Line(103, indent, str(self.name), BoxWidth - Len(indent) - len(self.name) - 2,
                     indent \o branch_icon \o str(self.name)
                         \o str_mul(horizontal_line, BoxWidth - Len(indent) - len(self.name) - 2)
                         \o left_branch_icon)
        new_indent == indent \o vertical_line \o <<" ">>
        body == Then(<<first>>, RectangleContainer_children(self, 1, new_indent))
    IN  IF body.exc # NoExc \/ ~is_bottom THEN body
        ELSE Then(body.lines,
                  Printed(<<Line(113, indent, <<>>, BoxWidth - Len(indent),
                      indent \o bottom_left_corner
                          \o str_mul(horizontal_line, BoxWidth - Len(indent))
                          \o bottom_right_corner)>>))

\* component.draw(indent, is_last, is_top, is_bottom), dispatched on the class
draw(self, indent, is_last, is_top, is_bottom) ==
    CASE self.cls = "TreeContainer"      -> TreeContainer_draw(self, indent, is_last, is_top, is_bottom)
      [] self.cls = "TreeLeaf"           -> TreeLeaf_draw(self, indent, is_last, is_top, is_bottom)
      [] self.cls = "RectangleContainer" -> RectangleContainer_draw(self, indent, is_last, is_top, is_bottom)
      [] self.cls = "RectangleLeaf"      -> RectangleLeaf_draw(self, indent, is_last, is_top, is_bottom)

\* The default of is_top in the class's draw: False for RectangleContainer only.
default_is_top(self) == self.cls # "RectangleContainer"

\* DrawVisitor.visit drawing the component as a sibling that is not the last.
visit_not_last(component) == draw(component, <<>>, FALSE, default_is_top(component), FALSE)

\* DrawVisitor.visit: component.draw() with every parameter at its default
visit(component) == draw(component, <<>>, TRUE, default_is_top(component), FALSE)

\* Component.accept: visitor.visit(self)
accept(self) == visit(self)

-----------------------------------------------------------------------------
(* ComponentIterator *)

Reverse(s) == [k \in 1..Len(s) |-> s[Len(s) + 1 - k]]

\* __init__: self.stack = [root]
ComponentIterator_init(root) == <<root>>

\* __next__ pushing the children in stored order instead of reversed.
ComponentIterator_next_unreversed(stk) ==
    LET current == stk[Len(stk)]
        popped == SubSeq(stk, 1, Len(stk) - 1)
    IN  [current |-> current,
         stack |-> IF current.cls \in {"TreeContainer", "RectangleContainer"}
                   THEN popped \o current.children
                   ELSE popped]

\* __next__ on a non-empty stack: the component returned and the stack left.
ComponentIterator_next(stk) ==
    LET current == stk[Len(stk)]
        popped == SubSeq(stk, 1, Len(stk) - 1)
    IN  [current |-> current,
         stack |-> IF current.cls \in {"TreeContainer", "RectangleContainer"}
                   THEN popped \o Reverse(current.children)
                   ELSE popped]

-----------------------------------------------------------------------------
(* display_tree *)

\* build_tree({key: value}, style_factory) for the k-th item of data (line 200)
build_root(d, f, k) == build_tree(PyDict(<<d.keys[k]>>, <<d.items[k]>>), f, 0)

\* One pass of the loop of lines 201-207 over subtree: the lines printed, the
\* exception raised if any, and the number of lines of each top-level draw call.
render_root(subtree, is_last_tree, f) ==
    LET first == accept(subtree)
    IN  IF first.exc # NoExc
        THEN [lines |-> first.lines, exc |-> first.exc, calls |-> <<Len(first.lines)>>]
        ELSE IF is_last_tree /\ f = "RectangleStyleFactory"
        THEN LET second == draw(subtree, <<>>, TRUE, default_is_top(subtree), TRUE)
             IN  [lines |-> first.lines \o second.lines, exc |-> second.exc,
                  calls |-> <<Len(first.lines), Len(second.lines)>>]
        ELSE [lines |-> first.lines, exc |-> NoExc, calls |-> <<Len(first.lines)>>]

RECURSIVE Passes(_, _, _)
\* The record of the draw calls on root r that printed `calls` lines each, from line `from` on.
Passes(r, from, calls) ==
    IF calls = <<>> THEN <<>>
    ELSE <<[root |-> r, first |-> from, last |-> from + calls[1] - 1]>>
         \o Passes(r, from + calls[1], Tail(calls))

Init ==
    /\ data \in Documents
    /\ factory \in Factories
    /\ pc = "run"
    /\ tree = <<>>
    /\ i = 1
    /\ out = <<>>
    /\ passes = <<>>
    /\ err = NoExc
    /\ stack = <<>>
    /\ yielded = <<>>

\* One pass of the loop of lines 199-200.
BuildRoot ==
    /\ pc = "run"
    /\ Len(tree) < Len(data.items)
    /\ LET built == build_root(data, factory, Len(tree) + 1)
       IN  IF IsRaised(built)
           THEN /\ pc' = "error"
                /\ err' = built.exc
                /\ tree' = tree
           ELSE /\ tree' = Append(tree, built)
                /\ UNCHANGED <<pc, err>>
    /\ UNCHANGED <<data, factory, i, out, passes, stack, yielded>>

\* One pass of the loop of lines 201-207.
RenderRoot ==
    /\ pc = "run"
    /\ Len(tree) = Len(data.items)
    /\ i <= Len(tree)
    /\ LET subtree == tree[i]
           is_last_tree == i = Len(tree)
           r == render_root(subtree, is_last_tree, factory)
       IN  /\ stack' = ComponentIterator_init(subtree)
           /\ out' = out \o r.lines
           /\ passes' = passes \o Passes(i, Len(out) + 1, r.calls)
           /\ IF r.exc # NoExc
              THEN pc' = "error" /\ err' = r.exc /\ i' = i
              ELSE i' = i + 1 /\ UNCHANGED <<pc, err>>
    /\ UNCHANGED <<data, factory, tree, yielded>>

\* display_tree returns.
Return ==
    /\ pc = "run"
    /\ Len(tree) = Len(data.items)
    /\ i > Len(tree)
    /\ pc' = "done"
    /\ UNCHANGED <<data, factory, tree, i, out, passes, err, stack, yielded>>

Next == BuildRoot \/ RenderRoot \/ Return

Spec == Init /\ [][Next]_vars

-----------------------------------------------------------------------------
(* A ComponentIterator over a root built by build_tree, driven by next().  *)

\* The forest of data under factory f, when every build_tree call returns.
Forest(d, f) == [k \in 1..Len(d.items) |-> build_root(d, f, k)]
Builds(d, f) == \A k \in 1..Len(d.items) : ~IsRaised(build_root(d, f, k))

InitIter ==
    /\ data \in Documents
    /\ factory \in Factories
    /\ Builds(data, factory)
    /\ tree = Forest(data, factory)
    /\ i \in 1..Len(tree)
    /\ pc = "new"
    /\ out = <<>>
    /\ passes = <<>>
    /\ err = NoExc
    /\ stack = <<>>
    /\ yielded = <<>>

\* iterator = ComponentIterator(subtree)
IterNew ==
    /\ pc = "new"
    /\ stack' = ComponentIterator_init(tree[i])
    /\ pc' = "iter"
    /\ UNCHANGED <<data, factory, tree, i, out, passes, err, yielded>>

\* next(iterator) returns a component.
IterNext ==
    /\ pc = "iter"
    /\ stack # <<>>
    /\ LET r == ComponentIterator_next(stack)
       IN  /\ stack' = r.stack
           /\ yielded' = Append(yielded, r.current)
    /\ UNCHANGED <<data, factory, pc, tree, i, out, passes, err>>

\* next(iterator) raises StopIteration.
IterStop ==
    /\ pc = "iter"
    /\ stack = <<>>
    /\ pc' = "stop"
    /\ UNCHANGED <<data, factory, tree, i, out, passes, err, stack, yielded>>

NextIter == IterNew \/ IterNext \/ IterStop

SpecIter == InitIter /\ [][NextIter]_vars

-----------------------------------------------------------------------------
(* Reference definitions the properties are stated with *)

RECURSIVE ScalarCount(_), ScalarCountSeq(_, _)
\* The scalar values among the first k of the values s.
ScalarCountSeq(s, k) == IF k = 0 THEN 0 ELSE ScalarCountSeq(s, k - 1) + ScalarCount(s[k])

\* The non-object, non-array values reachable from the JSON value x.
ScalarCount(x) ==
    CASE x.t \in {"dict", "list"} -> ScalarCountSeq(x.items, Len(x.items))
      [] OTHER        -> 1

RECURSIVE Paths(_), ChildPaths(_, _)
\* The pre-order paths of the descendants of c that lie under its children j..last.
ChildPaths(c, j) ==
    IF j > Len(c.children) THEN <<>>
    ELSE LET sub == Paths(c.children[j])
         IN  [k \in 1..Len(sub) |-> <<j>> \o sub[k]] \o ChildPaths(c, j + 1)

\* The paths (child indices from the root) of the components of c, parent
\* first, children left to right.
Paths(c) == <<<<>>>> \o (IF IsContainer(c) THEN ChildPaths(c, 1) ELSE <<>>)

RECURSIVE NodeAt(_, _)
NodeAt(c, path) == IF path = <<>> THEN c ELSE NodeAt(c.children[path[1]], Tail(path))

\* The components of c in left-to-right pre-order.
PreOrder(c) == [k \in 1..Len(Paths(c)) |-> NodeAt(c, Paths(c)[k])]

NodeCount(c) == Len(Paths(c))
LeafCount(c) == Cardinality({k \in 1..Len(Paths(c)) : IsLeaf(PreOrder(c)[k])})

RECURSIVE Sum(_, _)
Sum(f, k) == IF k = 0 THEN 0 ELSE Sum(f, k - 1) + f[k]

\* The component at path is the last child of its parent in root.
IsLastChild(root, path) ==
    path[Len(path)] = Len(NodeAt(root, SubSeq(path, 1, Len(path) - 1)).children)

RECURSIVE Rep(_, _)
\* s written k times
Rep(s, k) == IF k <= 0 THEN <<>> ELSE s \o Rep(s, k - 1)

TreeStyle == factory = "TreeStyleFactory"
BoxStyle == factory = "RectangleStyleFactory"
Built == Len(tree) = Len(data.items)
Ended == pc \in {"done", "error"}

\* The closing bottom edge: bottom_left + horizontal repeated + bottom_right.
IsBottomEdge(text) ==
    \E n \in 0..BoxWidth :
        text = icons.bottom_left_corner \o Rep(icons.horizontal_line, n)
                   \o icons.bottom_right_corner

-----------------------------------------------------------------------------
(* Properties *)

\* C1: once the forest is built, the number of Leaf components in it equals
\* the number of scalar values reachable from the input document.
C1_LeafCountEqualsScalarCount ==
    (Built /\ pc # "error") =>
        Sum([k \in 1..Len(tree) |-> LeafCount(tree[k])], Len(tree)) = ScalarCount(data)

\* C2: when display_tree returns, in either style, the top-level draw calls
\* are one per top-level key, in source key order: no root is drawn twice.
C2_EachRootRenderedOnce ==
    pc = "done" =>
        /\ Len(passes) = Len(data.items)
        /\ \A k \in 1..Len(passes) :
              passes[k].root = k /\ tree[k].name.s = data.keys[k]

\* C3: in Box style, when display_tree has ended on a non-empty forest, the
\* output holds exactly one bottom-edge line and it is the final line.
C3_OneBottomEdgeAtEnd ==
    (BoxStyle /\ Built /\ tree # <<>> /\ Ended) =>
        /\ out # <<>>
        /\ \A k \in 1..Len(out) : IsBottomEdge(out[k].text) <=> k = Len(out)

\* C4: in Box style, the first line of every top-level draw of a forest root
\* is the top edge, and a branch edge is printed only below the top level.
C4_RootStartsWithTopEdge ==
    BoxStyle =>
        /\ \A k \in 1..Len(passes) :
              out[passes[k].first].text =
                  icons.top_left_corner \o tree[passes[k].root].name.s
                      \o Rep(icons.horizontal_line, TopWidth) \o icons.top_right_corner
        /\ \A k \in 1..Len(out) : out[k].stmt = 103 => out[k].indent # <<>>

\* The glyph Tree style is to put on the line of a component, given whether
\* it is a container and whether it is the last child of its parent.
TreeGlyph(container, last) ==
    IF container THEN (IF last THEN icons.last_branch_icon ELSE icons.branch_icon)
    ELSE (IF last THEN icons.leaf_prefix ELSE icons.leaf_icon)

\* C5: in Tree style, the line of every component that has a parent carries
\* the glyph decided by its kind and by whether it is the last child of that
\* parent, and by nothing else.
C5_GlyphByPositionInParent ==
    TreeStyle =>
        \A k \in 1..Len(passes) :
            LET root == tree[passes[k].root]
                paths == Paths(root)
            IN  /\ passes[k].last - passes[k].first + 1 = Len(paths)
                /\ \A j \in 2..Len(paths) :
                      LET line == out[passes[k].first + j - 1]
                          node == NodeAt(root, paths[j])
                      IN  line.text = line.indent
                              \o TreeGlyph(IsContainer(node), IsLastChild(root, paths[j]))
                              \o <<" ">> \o str(node.name)

C5_Witness ==
    /\ TreeStyle /\ pc = "done"
    /\ \E k \in 1..Len(passes) :
          LET root == tree[passes[k].root]
              paths == Paths(root)
          IN  /\ \E j \in 2..Len(paths) :
                    IsContainer(NodeAt(root, paths[j])) /\ ~IsLastChild(root, paths[j])
              /\ \E j \in 2..Len(paths) :
                    IsLeaf(NodeAt(root, paths[j])) /\ IsLastChild(root, paths[j])
                        /\ Len(paths[j]) = 1

\* The parts of a Box-style line around its run of horizontal glyphs.
BoxHead(line) ==
    CASE line.stmt = 101 -> line.indent \o icons.top_left_corner \o line.name
      [] line.stmt = 103 -> line.indent \o icons.branch_icon \o line.name
      [] line.stmt = 113 -> line.indent \o icons.bottom_left_corner
      [] line.stmt = 128 -> line.indent \o icons.leaf_icon \o <<" ">> \o line.name
BoxTail(line) ==
    CASE line.stmt = 101 -> icons.top_right_corner
      [] line.stmt = 113 -> icons.bottom_right_corner
      [] OTHER           -> icons.left_branch_icon

\* The lines display_tree prints in Box style when no draw call raises.
BoxLineCount ==
    Sum([k \in 1..Len(tree) |-> NodeCount(tree[k])], Len(tree))
        + (IF tree = <<>> THEN 0 ELSE NodeCount(tree[Len(tree)]) + 1)

\* C6: in Box style every line holds as many horizontal glyphs as its
\* computed repeat count, and none when that count is negative; no run ends
\* in an error on account of a count: an error is the IndexError of
\* build_tree or the TypeError of len() on a name that has no length, and a
\* run without one prints every line of every root.
C6_NegativeCountClampedToZero ==
    BoxStyle =>
        /\ \A k \in 1..Len(out) :
              out[k].text = BoxHead(out[k])
                  \o Rep(icons.horizontal_line, IF out[k].n < 0 THEN 0 ELSE out[k].n)
                  \o BoxTail(out[k])
        /\ pc = "error" =>
              \/ err.type = "IndexError"
              \/ err.type = "TypeError" /\ ~has_len(err.arg)
        /\ pc = "done" => Len(out) = BoxLineCount

C6_Witness ==
    /\ BoxStyle /\ pc = "done"
    /\ \E k \in 1..Len(out) : k < Len(out) /\ out[k].n < 0 /\ out[k].stmt = 103
    /\ \E k \in 1..Len(out) : k < Len(out) /\ out[k].n < 0 /\ out[k].stmt = 128

\* The components still to come from the stack stk: the pre-order of its
\* elements, from the top of the stack down.
RECURSIVE Pending(_)
Pending(stk) ==
    IF stk = <<>> THEN <<>>
    ELSE PreOrder(stk[Len(stk)]) \o Pending(SubSeq(stk, 1, Len(stk) - 1))

\* C7: the components next() has returned, followed by those the stack still
\* stands for, are the components of the root in left-to-right pre-order;
\* the stack is empty exactly after as many steps as the root has
\* components, and the iteration then stops having returned each once.
C7_IteratorYieldsPreOrder ==
    pc \in {"iter", "stop"} =>
        /\ yielded \o Pending(stack) = PreOrder(tree[i])
        /\ (stack = <<>>) <=> (Len(yielded) = NodeCount(tree[i]))
        /\ pc = "stop" => yielded = PreOrder(tree[i])

C7_Witness ==
    /\ pc = "stop"
    /\ Len(yielded) >= 4
    /\ \E k \in 2..Len(yielded) : IsContainer(yielded[k]) /\ Len(yielded[k].children) >= 1
    /\ Len(tree[i].children) >= 2

\* An empty object is the j-th element of the array value of the k-th key.
EmptyObjectAt(k, j) ==
    /\ isinstance(data.items[k], "list")
    /\ j \in 1..Len(data.items[k].items)
    /\ data.items[k].items[j] = PyDict(<<>>, <<>>)

\* C8: build_tree on an empty object that is an element of an array returns
\* a Container without children, and the run does not fail on it.
C8_EmptyObjectBuildsEmptyContainer ==
    /\ err.type # "IndexError"
    /\ \A k \in 1..Len(tree) : \A j \in 1..MaxNodes :
          EmptyObjectAt(k, j) =>
              IsContainer(tree[k].children[j]) /\ tree[k].children[j].children = <<>>

\* C9: every Leaf of the forest has a string for a name.
C9_LeafNamesAreStrings ==
    \A k \in 1..Len(tree) : \A j \in 1..NodeCount(tree[k]) :
        IsLeaf(PreOrder(tree[k])[j]) => isinstance(PreOrder(tree[k])[j].name, "str")

\* C10: in Tree style every forest root is drawn with an empty indent and
\* the last_branch_icon, whatever its position; its direct children are
\* indented by exactly three spaces, and the vertical_line glyph starts in
\* none of the first three columns of any line.
C10_RootsDrawnAsLastSibling ==
    TreeStyle =>
        /\ \A k \in 1..Len(passes) :
              LET root == tree[passes[k].root]
                  paths == Paths(root)
                  first == out[passes[k].first]
              IN  /\ first.indent = <<>>
                  /\ first.text = icons.last_branch_icon \o <<" ">> \o root.name.s
                  /\ \A j \in 2..Len(paths) :
                        Len(paths[j]) = 1 =>
                            out[passes[k].first + j - 1].indent = <<" ", " ", " ">>
        /\ \A k \in 1..Len(out) : \A c \in 1..3 :
              c + Len(icons.vertical_line) - 1 <= Len(out[k].text) =>
                  SubSeq(out[k].text, c, c + Len(icons.vertical_line) - 1)
                      # icons.vertical_line

C10_Witness ==
    /\ TreeStyle /\ pc = "done"
    /\ Len(tree) >= 2
    /\ Len(tree[1].children) >= 1
    /\ \E j \in 1..Len(tree[1].children) : IsContainer(tree[1].children[j])

====
